---- MODULE Spec2Model ----
(***************************************************************************)
(* mahfida/mcqgen: the MCQ generation pipeline (generate_mcqs), its        *)
(* helpers (extract_json, read_file, get_table_data) and the Streamlit     *)
(* submit handler, as state machines.                                      *)
(*                                                                         *)
(* Texts that are parsed as JSON are sequences of tokens; texts that are   *)
(* only concatenated and displayed are TLA+ strings.  File paths are       *)
(* sequences of one-character strings.                                     *)
(***************************************************************************)
EXTENDS Integers, Sequences, FiniteSets, TLC

VARIABLES
    shellPc,              \* position of the Streamlit script (StreamlitAPP.py)
    upload,               \* uploaded_file.name, or <<>> when nothing was uploaded
    ui,                   \* what the script has put on the page, in order
    logged,               \* records written through the logger
    exc,                  \* the exception the script's except clause holds, or NULL
    uncaught,             \* the exception that left the script, or NULL
    pc,                   \* position inside the function under execution
    api_key,              \* os.getenv("OPENAI_API_KEY") after load_dotenv()
    response_json_file,   \* state of <root>/Response.json
    evaluation_json_file, \* state of <root>/Evaluation_response.json
    input_file_path,      \* the path handed to generate_mcqs / read_file
    fs,                   \* what is stored at input_file_path
    number,               \* the requested number of MCQs
    text,                 \* the text read_file returned
    quiz_text,            \* the reply of the quiz generation call
    final_output_text,    \* the reply of the review call: extract_json's input
    final_output,         \* extract_json's outcome
    quiz_str,             \* get_table_data's input
    quiz_table_data,      \* get_table_data's return value
    result,               \* how the function under execution ended
    calls,                \* history: number of completion calls made
    attempts,             \* history: number of combined_chain_text.invoke runs
    sent,                 \* history: the JSON value the input text serialises
    kind                  \* history: the class of the input text

vars == <<shellPc, upload, ui, logged, exc, uncaught, pc, api_key,
          response_json_file, evaluation_json_file, input_file_path, fs,
          number, text, quiz_text, final_output_text, final_output, quiz_str,
          quiz_table_data, result, calls, attempts, sent, kind>>

NULL == [t |-> "none"]

Max(S) == CHOOSE x \in S : \A y \in S : y <= x
Min(S) == CHOOSE x \in S : \A y \in S : x <= y

(***************************************************************************)
(* Python exceptions: the class and the message.                           *)
(***************************************************************************)
Raise(type, msg) == [t |-> "raise", type |-> type, msg |-> msg]
Return(v) == [t |-> "return", v |-> v]

(***************************************************************************)
(* JSON text as tokens, JSON values as tagged records.  An object keeps    *)
(* its members in insertion order, as a Python dict does.                  *)
(***************************************************************************)
Tok(c, s) == [c |-> c, s |-> s]
LB == Tok("lb", "{")
RB == Tok("rb", "}")
LK == Tok("lk", "[")
RK == Tok("rk", "]")
COLON == Tok("colon", ":")
COMMA == Tok("comma", ",")
WS == Tok("ws", " ")
STR(s) == Tok("str", s)
LIT(s) == Tok("lit", s)
PROSE(s) == Tok("prose", s)

JStr(s) == [t |-> "str", s |-> s]
JLit(s) == [t |-> "lit", s |-> s]
JArr(e) == [t |-> "arr", e |-> e]
JObj(m) == [t |-> "obj", m |-> m]
Member(k, v) == [k |-> k, v |-> v]

\* dict.__setitem__: a repeated key keeps its place and takes the new value
Put(m, k, v) ==
    IF \E i \in 1..Len(m) : m[i].k = k
    THEN [i \in 1..Len(m) |-> IF m[i].k = k THEN Member(k, v) ELSE m[i]]
    ELSE Append(m, Member(k, v))

SkipWs(toks, i) ==
    LET stop == {j \in i..Len(toks) : toks[j].c # "ws"}
    IN  IF stop = {} THEN Len(toks) + 1 ELSE Min(stop)

ParseFail == [ok |-> FALSE]
ParseOk(v, next) == [ok |-> TRUE, val |-> v, next |-> next]

RECURSIVE ParseValue(_, _), ParseMembers(_, _, _, _), ParseElems(_, _, _, _)
\* json.decoder scan_once at position i (whitespace already skipped)
ParseValue(toks, i) ==
    IF i > Len(toks) THEN ParseFail
    ELSE CASE toks[i].c = "str" -> ParseOk(JStr(toks[i].s), i + 1)
           [] toks[i].c = "lit" -> ParseOk(JLit(toks[i].s), i + 1)
           [] toks[i].c = "lb" -> ParseMembers(toks, SkipWs(toks, i + 1), <<>>, TRUE)
           [] toks[i].c = "lk" -> ParseElems(toks, SkipWs(toks, i + 1), <<>>, TRUE)
           [] OTHER -> ParseFail

\* json.decoder JSONObject: members after "{" or after a ","
ParseMembers(toks, i, acc, first) ==
    IF i > Len(toks) THEN ParseFail
    ELSE IF first /\ toks[i].c = "rb" THEN ParseOk(JObj(acc), i + 1)
    ELSE IF toks[i].c # "str" THEN ParseFail
    ELSE LET j == SkipWs(toks, i + 1)
         IN  IF j > Len(toks) \/ toks[j].c # "colon" THEN ParseFail
             ELSE LET r == ParseValue(toks, SkipWs(toks, j + 1))
                  IN  IF ~r.ok THEN ParseFail
                      ELSE LET l == SkipWs(toks, r.next)
                               acc2 == Put(acc, toks[i].s, r.val)
                           IN  IF l > Len(toks) THEN ParseFail
                               ELSE IF toks[l].c = "rb" THEN ParseOk(JObj(acc2), l + 1)
                               ELSE IF toks[l].c = "comma"
                                    THEN ParseMembers(toks, SkipWs(toks, l + 1), acc2, FALSE)
                               ELSE ParseFail

\* json.decoder JSONArray: elements after "[" or after a ","
ParseElems(toks, i, acc, first) ==
    IF i > Len(toks) THEN ParseFail
    ELSE IF first /\ toks[i].c = "rk" THEN ParseOk(JArr(acc), i + 1)
    ELSE LET r == ParseValue(toks, i)
         IN  IF ~r.ok THEN ParseFail
             ELSE LET l == SkipWs(toks, r.next)
                      acc2 == Append(acc, r.val)
                  IN  IF l > Len(toks) THEN ParseFail
                      ELSE IF toks[l].c = "rk" THEN ParseOk(JArr(acc2), l + 1)
                      ELSE IF toks[l].c = "comma"
                           THEN ParseElems(toks, SkipWs(toks, l + 1), acc2, FALSE)
                      ELSE ParseFail

\* json.loads: one value, whitespace around it allowed, nothing else after it
JsonLoads(toks) ==
    LET r == ParseValue(toks, SkipWs(toks, 1))
    IN  IF r.ok /\ SkipWs(toks, r.next) > Len(toks)
        THEN Return(r.val)
        ELSE Raise("JSONDecodeError", "invalid JSON")

RECURSIVE JsonDumps(_), DumpMembers(_, _), DumpElems(_, _)
\* json.dumps with its default separators (", " and ": ")
JsonDumps(v) ==
    CASE v.t = "str" -> <<STR(v.s)>>
      [] v.t = "lit" -> <<LIT(v.s)>>
      [] v.t = "arr" -> <<LK>> \o DumpElems(v.e, 1) \o <<RK>>
      [] v.t = "obj" -> <<LB>> \o DumpMembers(v.m, 1) \o <<RB>>

DumpMembers(m, i) ==
    IF i > Len(m) THEN <<>>
    ELSE (IF i > 1 THEN <<COMMA, WS>> ELSE <<>>)
         \o <<STR(m[i].k), COLON, WS>> \o JsonDumps(m[i].v) \o DumpMembers(m, i + 1)

DumpElems(e, i) ==
    IF i > Len(e) THEN <<>>
    ELSE (IF i > 1 THEN <<COMMA, WS>> ELSE <<>>)
         \o JsonDumps(e[i]) \o DumpElems(e, i + 1)

(***************************************************************************)
(* extract_json (MCQGenerator.py 26-34)                                    *)
(***************************************************************************)
\* the pattern \{.*\} tried at position s: "{" there, then the greedy .*
\* (DOTALL: any token) gives back until a "}" ends the match; 0 = no match
MatchAtMinimal(toks, s) ==
    IF toks[s].c # "lb" THEN 0
    ELSE LET ends == {e \in (s + 1)..Len(toks) : toks[e].c = "rb"}
         IN  IF ends = {} THEN 0 ELSE Min(ends)

MatchAt(toks, s) ==
    IF toks[s].c # "lb" THEN 0
    ELSE LET ends == {e \in (s + 1)..Len(toks) : toks[e].c = "rb"}
         IN  IF ends = {} THEN 0 ELSE Max(ends)

\* re.search: the match at the leftmost position that has one
ReSearch(toks) ==
    LET starts == {s \in 1..Len(toks) : MatchAt(toks, s) # 0}
    IN  IF starts = {} THEN [found |-> FALSE]
        ELSE [found |-> TRUE, start |-> Min(starts), end |-> MatchAt(toks, Min(starts))]

ExtractJson(toks) ==
    LET match == ReSearch(toks)
    IN  IF ~match.found
        THEN Raise("ValueError", "No JSON object found in LLM output.")
        ELSE JsonLoads(SubSeq(toks, match.start, match.end))

(***************************************************************************)
(* extract_json on its own: every reply text up to MaxTextLen tokens.      *)
(***************************************************************************)
MaxTextLen == 6

ExtractAlphabet == {LB, RB, COLON, WS, STR("a"), PROSE("Sure")}

ExtractTexts == UNION {[1..n -> ExtractAlphabet] : n \in 0..MaxTextLen}

InitExtract ==
    /\ final_output_text \in ExtractTexts
    /\ pc = "call"
    /\ final_output = NULL
    /\ shellPc = "none" /\ upload = <<>> /\ ui = <<>> /\ logged = <<>>
    /\ exc = NULL /\ uncaught = NULL /\ api_key = NULL
    /\ response_json_file = "valid" /\ evaluation_json_file = "valid"
    /\ input_file_path = <<>> /\ fs = NULL /\ number = 1 /\ text = ""
    /\ quiz_text = <<>> /\ quiz_str = <<>> /\ quiz_table_data = NULL
    /\ result = NULL /\ calls = 0 /\ attempts = 0 /\ sent = NULL /\ kind = "text"

CallExtractJson ==
    /\ pc = "call"
    /\ final_output' = ExtractJson(final_output_text)
    /\ pc' = "returned"
    /\ UNCHANGED <<shellPc, upload, ui, logged, exc, uncaught, api_key,
                   response_json_file, evaluation_json_file, input_file_path,
                   fs, number, text, quiz_text, final_output_text, quiz_str,
                   quiz_table_data, result, calls, attempts, sent, kind>>

NextExtract == CallExtractJson

SpecExtract == InitExtract /\ [][NextExtract]_vars

(***************************************************************************)
(* read_file (utils.py 7-28)                                               *)
(***************************************************************************)
\* str.lower on the characters the paths below are made of
LowerChar(c) ==
    CASE c = "P" -> "p"
      [] c = "D" -> "d"
      [] c = "F" -> "f"
      [] c = "T" -> "t"
      [] c = "X" -> "x"
      [] OTHER -> c

Lower(path) == [i \in 1..Len(path) |-> LowerChar(path[i])]

\* str.endswith
EndsWith(path, suffix) ==
    /\ Len(path) >= Len(suffix)
    /\ SubSeq(path, Len(path) - Len(suffix) + 1, Len(path)) = suffix

DotPdf == <<".", "p", "d", "f">>
DotTxt == <<".", "t", "x", "t">>

\* What is stored at a path, as the two readers see it: PdfReader(path)
\* gives pages or raises, open(path).read() gives text or raises.  A page
\* is the outcome of its extract_text(): a string (possibly empty) or an
\* exception.
Ok(v) == [ok |-> TRUE, v |-> v]
Err(type, msg) == [ok |-> FALSE, type |-> type, msg |-> msg]

PdfFile(pages) == [pdf |-> Ok(pages), txt |-> Err("UnicodeDecodeError", "invalid start byte")]
TextFile(content) == [pdf |-> Err("PdfStreamError", "Stream has ended unexpectedly"), txt |-> Ok(content)]
MissingFile == [pdf |-> Err("FileNotFoundError", "No such file or directory"),
                txt |-> Err("FileNotFoundError", "No such file or directory")]

\* the loop of lines 14-18 with the separator a reader of the text expects
RECURSIVE ReadPagesNewline(_, _, _)
ReadPagesNewline(pages, i, acc) ==
    IF i > Len(pages) THEN Return(acc)
    ELSE IF ~pages[i].ok THEN Raise(pages[i].type, pages[i].msg)
    ELSE ReadPagesNewline(pages, i + 1,
                          IF pages[i].v # "" THEN acc \o pages[i].v \o "\n" ELSE acc)

\* lines 14-18: text = ""; for page in reader.pages: if extracted: text += extracted
RECURSIVE ReadPages(_, _, _)
ReadPages(pages, i, acc) ==
    IF i > Len(pages) THEN Return(acc)
    ELSE IF ~pages[i].ok THEN Raise(pages[i].type, pages[i].msg)
    ELSE ReadPages(pages, i + 1, IF pages[i].v # "" THEN acc \o pages[i].v ELSE acc)

\* lines 12-21: any exception of the try block becomes a plain Exception
ReadPdf(file) ==
    LET r == IF file.pdf.ok THEN ReadPages(file.pdf.v, 1, "")
             ELSE Raise(file.pdf.type, file.pdf.msg)
    IN  IF r.t = "raise"
        THEN Raise("Exception", "Error reading PDF file: " \o r.msg)
        ELSE r

\* lines 23-25
ReadTxt(file) ==
    IF file.txt.ok THEN Return(file.txt.v) ELSE Raise(file.txt.type, file.txt.msg)

UnsupportedFormat ==
    Raise("ValueError", "Unsupported file format. Please upload a PDF or TXT file.")

\* lines 27-28 replaced by a fall back to reading the file as text
ReadFileAnyAsText(path, file) ==
    IF EndsWith(Lower(path), DotPdf) THEN ReadPdf(file) ELSE ReadTxt(file)

ReadFile(path, file) ==
    IF EndsWith(Lower(path), DotPdf) THEN ReadPdf(file)
    ELSE IF EndsWith(Lower(path), DotTxt) THEN ReadTxt(file)
    ELSE UnsupportedFormat

(***************************************************************************)
(* read_file on its own: every path of Paths, every file of ReadFiles.     *)
(***************************************************************************)
MaxPages == 3

Stems == {<<"f">>, <<"a", ".", "b">>, <<"d", ".", "p", "d", "f", "/", "f">>}

Suffixes == {DotPdf, <<".", "P", "D", "F">>, <<".", "P", "d", "f">>,
             DotTxt, <<".", "T", "X", "T">>,
             <<".", "d", "o", "c", "x">>, <<".", "p", "d">>, <<"p", "d", "f">>,
             <<".", "p", "d", "f", "x">>, <<".", "t", "x", "t", ".", "b">>, <<>>}

Paths == {stem \o suffix : stem \in Stems, suffix \in Suffixes}

PageOutcomes == {Ok(""), Ok("A"), Ok("B"), Err("PdfReadError", "bad page")}

ReadFiles ==
    {PdfFile(pages) : pages \in UNION {[1..n -> PageOutcomes] : n \in 0..MaxPages}}
    \cup {TextFile("hello"), TextFile(""), MissingFile}

InitRead ==
    /\ input_file_path \in Paths
    /\ fs \in ReadFiles
    /\ pc = "call"
    /\ result = NULL /\ text = ""
    /\ shellPc = "none" /\ upload = <<>> /\ ui = <<>> /\ logged = <<>>
    /\ exc = NULL /\ uncaught = NULL /\ api_key = NULL
    /\ response_json_file = "valid" /\ evaluation_json_file = "valid"
    /\ number = 1 /\ quiz_text = <<>> /\ final_output_text = <<>>
    /\ final_output = NULL /\ quiz_str = <<>> /\ quiz_table_data = NULL
    /\ calls = 0 /\ attempts = 0 /\ sent = NULL /\ kind = "file"

CallReadFile ==
    /\ pc = "call"
    /\ result' = ReadFile(input_file_path, fs)
    /\ text' = IF result'.t = "return" THEN result'.v ELSE text
    /\ pc' = "returned"
    /\ UNCHANGED <<shellPc, upload, ui, logged, exc, uncaught, api_key,
                   response_json_file, evaluation_json_file, input_file_path,
                   fs, number, quiz_text, final_output_text, final_output,
                   quiz_str, quiz_table_data, calls, attempts, sent, kind>>

NextRead == CallReadFile

SpecRead == InitRead /\ [][NextRead]_vars

(***************************************************************************)
(* get_table_data (utils.py 31-57)                                         *)
(***************************************************************************)
\* dict.get(key, default)
DictGet(obj, key, default) ==
    LET hits == {i \in 1..Len(obj.m) : obj.m[i].k = key}
    IN  IF hits = {} THEN default ELSE obj.m[CHOOSE i \in hits : TRUE].v

AttributeError(attr) == Raise("AttributeError", "object has no attribute '" \o attr \o "'")

RECURSIVE PyStr(_), PyRepr(_), ReprMembers(_, _), ReprElems(_, _)
\* str(value), what an f-string puts in place of {opt_val}
PyStr(v) ==
    CASE v.t = "str" -> v.s
      [] v.t = "lit" -> (CASE v.s = "true" -> "True"
                           [] v.s = "false" -> "False"
                           [] v.s = "null" -> "None"
                           [] OTHER -> v.s)
      [] v.t = "arr" -> "[" \o ReprElems(v.e, 1) \o "]"
      [] v.t = "obj" -> "{" \o ReprMembers(v.m, 1) \o "}"

PyRepr(v) == IF v.t = "str" THEN "'" \o v.s \o "'" ELSE PyStr(v)

ReprMembers(m, i) ==
    IF i > Len(m) THEN ""
    ELSE (IF i > 1 THEN ", " ELSE "") \o "'" \o m[i].k \o "': " \o PyRepr(m[i].v)
         \o ReprMembers(m, i + 1)

ReprElems(e, i) ==
    IF i > Len(e) THEN ""
    ELSE (IF i > 1 THEN ", " ELSE "") \o PyRepr(e[i]) \o ReprElems(e, i + 1)

\* str.join
RECURSIVE Join(_, _)
Join(sep, items) ==
    IF items = <<>> THEN ""
    ELSE IF Len(items) = 1 THEN items[1]
    ELSE items[1] \o sep \o Join(sep, Tail(items))

\* line 43 with the label left out of each item
FormatOptionBare(opt, opt_val) == PyStr(opt_val)

\* line 43: f"{opt}) {opt_val}"
FormatOption(opt, opt_val) == opt \o ") " \o PyStr(opt_val)

\* lines 42-44
Choices(options) ==
    Join(".||.", [i \in 1..Len(options.m) |-> FormatOption(options.m[i].k, options.m[i].v)])

TableRow(mcq, options, correct) == [MCQ |-> mcq, Choices |-> options, Correct |-> correct]

\* the loop body with value["mcq"] and value["correct"] in place of .get
RowOfSubscript(value) ==
    IF value.t # "obj" THEN AttributeError("get")
    ELSE LET options == DictGet(value, "options", JObj(<<>>))
         IN  IF options.t # "obj" THEN AttributeError("items")
             ELSE IF DictGet(value, "mcq", NULL) = NULL \/ DictGet(value, "correct", NULL) = NULL
             THEN Raise("KeyError", "mcq")
             ELSE Return([MCQ |-> DictGet(value, "mcq", NULL),
                          Choices |-> Choices(options),
                          Correct |-> DictGet(value, "correct", NULL)])

\* lines 41-51, one pass of the loop body
RowOf(value) ==
    IF value.t # "obj" THEN AttributeError("get")
    ELSE LET options == DictGet(value, "options", JObj(<<>>))
         IN  IF options.t # "obj" THEN AttributeError("items")
             ELSE Return(TableRow(DictGet(value, "mcq", JStr("")),
                                  Choices(options),
                                  DictGet(value, "correct", JStr(""))))

\* lines 40-53: the loop over quiz_data.items()
RECURSIVE RowsFrom(_, _, _)
RowsFrom(m, i, acc) ==
    IF i > Len(m) THEN Return(acc)
    ELSE LET row == RowOf(m[i].v)
         IN  IF row.t = "raise" THEN row ELSE RowsFrom(m, i + 1, Append(acc, row.v))

\* lines 36-53: the try block
TableBody(toks) ==
    LET quiz_data == JsonLoads(toks)
    IN  IF quiz_data.t = "raise" THEN quiz_data
        ELSE IF quiz_data.v.t # "obj" THEN AttributeError("items")
        ELSE RowsFrom(quiz_data.v.m, 1, <<>>)

PyFalse == [t |-> "bool", b |-> FALSE]
PyList(rows) == [t |-> "list", rows |-> rows]

\* lines 55-57 with the handler returning an empty list
GetTableDataEmptyList(toks) ==
    LET r == TableBody(toks)
    IN  IF r.t = "raise" THEN Return(PyList(<<>>)) ELSE Return(PyList(r.v))

\* lines 35-57: except Exception: print the traceback, return False
GetTableData(toks) ==
    LET r == TableBody(toks)
    IN  IF r.t = "raise" THEN Return(PyFalse) ELSE Return(PyList(r.v))

(***************************************************************************)
(* Quiz values: the shape the prompts ask the model for (MCQGenerator.py   *)
(* 89-95), and the ways a value can miss it.                               *)
(***************************************************************************)
Digits == <<"0", "1", "2", "3", "4", "5", "6", "7", "8", "9">>

\* str(n) for n >= 0
RECURSIVE IntStr(_)
IntStr(n) == IF n < 10 THEN Digits[n + 1] ELSE IntStr(n \div 10) \o Digits[(n % 10) + 1]

Labels == <<"a", "b", "c", "d">>

OptionText(label) ==
    CASE label = "a" -> "X"
      [] label = "b" -> "Y"
      [] label = "c" -> "Z"
      [] label = "d" -> "W"
      [] OTHER -> "V"

OptionsIn(order) == JObj([i \in 1..Len(order) |-> Member(order[i], JStr(OptionText(order[i])))])

Question(mcq, order, correct) ==
    JObj(<<Member("mcq", JStr(mcq)),
           Member("options", OptionsIn(order)),
           Member("correct", JStr(correct))>>)

OptionOrders == {Labels, <<"b", "a", "d", "c">>, <<"d", "c", "b", "a">>}

Questions ==
    {Question(mcq, order, correct) :
        mcq \in {"Q1", "Q2"}, order \in OptionOrders, correct \in {"b", "d"}}

\* the keys "1".."n", ascending or descending
KeyOrders(n) == {[i \in 1..n |-> IntStr(i)], [i \in 1..n |-> IntStr(n + 1 - i)]}

QuizOf(keys, qs) == JObj([i \in 1..Len(keys) |-> Member(keys[i], qs[i])])

MaxQuestions == 2

ValidQuizzes ==
    UNION {{QuizOf(keys, qs) : keys \in KeyOrders(n), qs \in [1..n -> Questions]} :
           n \in 1..MaxQuestions}

Q0 == Question("Q1", Labels, "b")

UnparsableTexts ==
    {<<>>, <<PROSE("Sorry")>>, <<LB, STR("1"), COLON>>, <<LB, STR("1"), COLON, STR("q"), COMMA, RB>>,
     JsonDumps(QuizOf(<<"1">>, <<Q0>>)) \o <<PROSE("Done")>>}

NonMappingTops == {JArr(<<>>), JArr(<<Q0>>), JLit("5"), JLit("null"), JStr("quiz")}

QuestionNotMapping ==
    {QuizOf(<<"1">>, <<JStr("q")>>),
     QuizOf(<<"1", "2">>, <<Q0, JLit("null")>>),
     QuizOf(<<"1">>, <<JArr(<<Q0>>)>>)}

OptionsNotMapping ==
    {QuizOf(<<"1">>, <<JObj(<<Member("mcq", JStr("Q1")), Member("options", JStr("abcd")),
                              Member("correct", JStr("a"))>>)>>),
     QuizOf(<<"1", "2">>, <<Q0, JObj(<<Member("mcq", JStr("Q2")),
                                        Member("options", JArr(<<JStr("X"), JStr("Y")>>)),
                                        Member("correct", JStr("a"))>>)>>)}

\* questions that are mappings but miss the shape
NoMcq == JObj(<<Member("options", OptionsIn(Labels)), Member("correct", JStr("b"))>>)
NoOptions == JObj(<<Member("mcq", JStr("Q1")), Member("correct", JStr("b"))>>)
NoCorrect == JObj(<<Member("mcq", JStr("Q1")), Member("options", OptionsIn(Labels))>>)
NoLabelD == Question("Q1", <<"a", "b", "c">>, "b")
CorrectE == Question("Q1", Labels, "e")
OddValues ==
    JObj(<<Member("mcq", JLit("7")),
           Member("options", JObj(<<Member("a", JLit("true")), Member("b", JLit("null")),
                                    Member("c", JArr(<<JStr("Z"), JLit("1")>>)),
                                    Member("d", JObj(<<Member("k", JStr("W"))>>))>>)),
           Member("correct", JStr("a"))>>)

OffShapeQuestions == {NoMcq, NoOptions, NoCorrect, NoLabelD, CorrectE, OddValues, JObj(<<>>)}

OffShapeQuizzes ==
    {QuizOf(<<"1">>, <<q>>) : q \in OffShapeQuestions}
    \cup {QuizOf(<<"1", "2">>, <<Q0, q>>) : q \in OffShapeQuestions}
    \cup {JObj(<<>>)}

(***************************************************************************)
(* get_table_data on its own.                                              *)
(***************************************************************************)
TableInput(k, v, toks) == [kind |-> k, sent |-> v, text |-> toks]

TableInputs ==
    {TableInput("valid", q, JsonDumps(q)) : q \in ValidQuizzes}
    \cup {TableInput("unparsable", NULL, toks) : toks \in UnparsableTexts}
    \cup {TableInput("non_mapping_top", v, JsonDumps(v)) : v \in NonMappingTops}
    \cup {TableInput("question_not_mapping", v, JsonDumps(v)) : v \in QuestionNotMapping}
    \cup {TableInput("options_not_mapping", v, JsonDumps(v)) : v \in OptionsNotMapping}
    \cup {TableInput("off_shape", v, JsonDumps(v)) : v \in OffShapeQuizzes}

InitTable ==
    /\ \E inp \in TableInputs :
          /\ quiz_str = inp.text
          /\ sent = inp.sent
          /\ kind = inp.kind
    /\ pc = "call"
    /\ result = NULL /\ quiz_table_data = NULL
    /\ shellPc = "none" /\ upload = <<>> /\ ui = <<>> /\ logged = <<>>
    /\ exc = NULL /\ uncaught = NULL /\ api_key = NULL
    /\ response_json_file = "valid" /\ evaluation_json_file = "valid"
    /\ input_file_path = <<>> /\ fs = NULL /\ number = 1 /\ text = ""
    /\ quiz_text = <<>> /\ final_output_text = <<>> /\ final_output = NULL
    /\ calls = 0 /\ attempts = 0

CallGetTableData ==
    /\ pc = "call"
    /\ result' = GetTableData(quiz_str)
    /\ quiz_table_data' = IF result'.t = "return" THEN result'.v ELSE quiz_table_data
    /\ pc' = "returned"
    /\ UNCHANGED <<shellPc, upload, ui, logged, exc, uncaught, api_key,
                   response_json_file, evaluation_json_file, input_file_path,
                   fs, number, text, quiz_text, final_output_text, final_output,
                   quiz_str, calls, attempts, sent, kind>>

NextTable == CallGetTableData

SpecTable == InitTable /\ [][NextTable]_vars

(***************************************************************************)
(* Properties of extract_json, under SpecExtract.                          *)
(***************************************************************************)
OpenBraces(toks) == {i \in 1..Len(toks) : toks[i] = LB}
CloseBraces(toks) == {i \in 1..Len(toks) : toks[i] = RB}

\* the text has a "{" with a "}" somewhere after it
HasBraceSpan(toks) ==
    /\ OpenBraces(toks) # {}
    /\ CloseBraces(toks) # {}
    /\ Min(OpenBraces(toks)) < Max(CloseBraces(toks))

\* from the first "{" of the text to its last "}"
BraceSpan(toks) == SubSeq(toks, Min(OpenBraces(toks)), Max(CloseBraces(toks)))

PathName(path) ==
    LET slashes == {i \in 1..Len(path) : path[i] = "/"}
    IN  IF slashes = {} THEN path ELSE SubSeq(path, Max(slashes) + 1, Len(path))

PathSuffix(path) ==
    LET name == PathName(path)
        dots == {i \in 1..Len(name) : name[i] = "."}
    IN  IF dots = {} \/ Max(dots) = 1 \/ Max(dots) = Len(name) THEN <<>>
        ELSE SubSeq(name, Max(dots), Len(name))

IsPdfPath(path) == Lower(PathSuffix(path)) = DotPdf
IsTxtPath(path) == Lower(PathSuffix(path)) = DotTxt

AllPagesExtract(pages) == \A i \in 1..Len(pages) : pages[i].ok

\* the page texts one after the other, last page first to be appended
RECURSIVE PagesFlat(_)
PagesFlat(pages) ==
    IF pages = <<>> THEN "" ELSE PagesFlat(SubSeq(pages, 1, Len(pages) - 1)) \o pages[Len(pages)].v

NonEmptyPage(p) == p.v # ""

\* the texts of the non-empty pages with "\n" between them
PagesNewlineBetween(pages) ==
    LET kept == SelectSeq(pages, NonEmptyPage)
    IN  Join("\n", [i \in 1..Len(kept) |-> kept[i].v])

\* the texts of the non-empty pages, each followed by "\n"
PagesNewlineAfter(pages) ==
    LET kept == SelectSeq(pages, NonEmptyPage)
    IN  Join("", [i \in 1..Len(kept) |-> kept[i].v \o "\n"])

FirstPageError(pages) == pages[Min({i \in 1..Len(pages) : ~pages[i].ok})]

\* C10 as amended: on a .pdf path read_file returns the texts of the pages
\* in page order joined with nothing between them (an empty page adds
\* nothing); when the reader or a page raises, it raises a plain Exception
\* whose message is "Error reading PDF file: " and the cause's message.
C10_PdfTextNoSeparator ==
    (pc = "returned" /\ IsPdfPath(input_file_path)) =>
        IF fs.pdf.ok /\ AllPagesExtract(fs.pdf.v)
        THEN result = Return(PagesFlat(fs.pdf.v)) /\ text = PagesFlat(fs.pdf.v)
        ELSE result = Raise("Exception", "Error reading PDF file: "
                            \o (IF fs.pdf.ok THEN FirstPageError(fs.pdf.v).msg ELSE fs.pdf.msg))

\* C10 as stated: the non-empty page texts are joined with newline separators
C10_PdfTextNewlines ==
    (pc = "returned" /\ IsPdfPath(input_file_path) /\ fs.pdf.ok /\ AllPagesExtract(fs.pdf.v)) =>
        \/ result = Return(PagesNewlineBetween(fs.pdf.v))
        \/ result = Return(PagesNewlineAfter(fs.pdf.v))

\* three pages, the middle one without text
C10_Witness ==
    /\ pc = "returned"
    /\ IsPdfPath(input_file_path)
    /\ fs.pdf.ok
    /\ fs.pdf.v = <<Ok("A"), Ok(""), Ok("B")>>
    /\ result = Return("AB")

(***************************************************************************)
(* Properties of get_table_data, under SpecTable.                          *)
(***************************************************************************)
\* C6: for a quiz of the validated shape get_table_data returns one row per
\* question in the mapping's order; the row's MCQ is the question's mcq, its
\* Correct the question's correct, and its Choices the four "label) text"
\* items in the options' order joined by ".||." (for a:X, b:Y, c:Z, d:W
\* exactly "a) X.||.b) Y.||.c) Z.||.d) W").
C6_TableRows ==
    (pc = "returned" /\ kind = "valid") =>
        /\ quiz_table_data.t = "list"
        /\ Len(quiz_table_data.rows) = Len(sent.m)
        /\ \A i \in 1..Len(sent.m) :
              LET q == sent.m[i].v
                  o == q.m[2].v.m
                  row == quiz_table_data.rows[i]
              IN  /\ row.MCQ = q.m[1].v
                  /\ row.Correct = q.m[3].v
                  /\ row.Choices = o[1].k \o ") " \o o[1].v.s \o ".||."
                                   \o o[2].k \o ") " \o o[2].v.s \o ".||."
                                   \o o[3].k \o ") " \o o[3].v.s \o ".||."
                                   \o o[4].k \o ") " \o o[4].v.s
                  /\ (<<o[1].k, o[2].k, o[3].k, o[4].k>> = Labels
                         => row.Choices = "a) X.||.b) Y.||.c) Z.||.d) W")

\* two questions keyed "2" then "1"; the first has options a..d and correct b
C6_Witness ==
    /\ pc = "returned"
    /\ kind = "valid"
    /\ Len(sent.m) = 2
    /\ sent.m[1].k = "2"
    /\ quiz_table_data.t = "list"
    /\ quiz_table_data.rows[1] =
           TableRow(JStr("Q2"), "a) X.||.b) Y.||.c) Z.||.d) W", JStr("b"))
    /\ quiz_table_data.rows[2].Choices = "d) W.||.c) Z.||.b) Y.||.a) X"

MalformedKinds ==
    {"unparsable", "non_mapping_top", "question_not_mapping", "options_not_mapping"}

\* C7 as amended: get_table_data raises nothing; on text that is not JSON, on
\* a top level that is not a mapping and on a question (or its options) that
\* is not a mapping it returns False, and a list of rows otherwise.
C7_ReturnsFalseOnMalformed ==
    pc = "returned" =>
        /\ result.t = "return"
        /\ kind \in MalformedKinds => quiz_table_data = PyFalse
        /\ kind \notin MalformedKinds => quiz_table_data.t = "list"

\* C7 as stated: on malformed input the result is an empty row sequence
C7_ReturnsEmptyOnMalformed ==
    pc = "returned" =>
        /\ result.t = "return"
        /\ kind \in MalformedKinds => quiz_table_data = PyList(<<>>)

\* a quiz whose second question is null
C7_Witness ==
    /\ pc = "returned"
    /\ kind = "question_not_mapping"
    /\ Len(sent.m) = 2
    /\ result = Return(PyFalse)

(***************************************************************************)
(* generate_mcqs (MCQGenerator.py 40-174)                                  *)
(***************************************************************************)
\* "is not None" in place of truthiness
IsNotNone(v) == v # NULL

\* line 51, "not api_key": None and the empty string are both false
Truthy(v) == v # NULL /\ v.s # ""

MissingKey ==
    Raise("ValueError", "OPENAI_API_KEY not found in environment. Put it in your .env file.")

\* an exception raised in the body ends the attempt there and starts the
\* sequence of line 159 again, once
PropagateRetryOnce(e) ==
    IF attempts = 0 THEN result' = e /\ pc' = "done"
    ELSE IF attempts < 2 THEN result' = result /\ pc' = "quiz"
    ELSE result' = Raise("GenerationFailedError", e.msg) /\ pc' = "done"

\* an exception raised in the body leaves generate_mcqs: it has no try block
Propagate(e) == result' = e /\ pc' = "done"

\* lines 48-52
LoadEnv ==
    /\ pc = "load_env"
    /\ IF Truthy(api_key)
       THEN pc' = "schema" /\ result' = result
       ELSE Propagate(MissingKey)
    /\ UNCHANGED <<shellPc, upload, ui, logged, exc, uncaught, api_key,
                   response_json_file, evaluation_json_file, input_file_path,
                   fs, number, text, quiz_text, final_output_text, final_output,
                   quiz_str, quiz_table_data, calls, attempts, sent, kind>>

\* lines 56-68: both files must exist, then both are loaded as JSON
LoadSchemas ==
    /\ pc = "schema"
    /\ IF response_json_file = "missing"
       THEN Propagate(Raise("FileNotFoundError", "Missing file: Response.json"))
       ELSE IF evaluation_json_file = "missing"
       THEN Propagate(Raise("FileNotFoundError", "Missing file: Evaluation_response.json"))
       ELSE IF response_json_file = "invalid" \/ evaluation_json_file = "invalid"
       THEN Propagate(Raise("JSONDecodeError", "invalid JSON"))
       ELSE pc' = "read" /\ result' = result
    /\ UNCHANGED <<shellPc, upload, ui, logged, exc, uncaught, api_key,
                   response_json_file, evaluation_json_file, input_file_path,
                   fs, number, text, quiz_text, final_output_text, final_output,
                   quiz_str, quiz_table_data, calls, attempts, sent, kind>>

\* line 71
ReadInput ==
    /\ pc = "read"
    /\ LET r == ReadFile(input_file_path, fs)
       IN  IF r.t = "raise"
           THEN Propagate(r) /\ text' = text
           ELSE pc' = "quiz" /\ result' = result /\ text' = r.v
    /\ UNCHANGED <<shellPc, upload, ui, logged, exc, uncaught, api_key,
                   response_json_file, evaluation_json_file, input_file_path,
                   fs, number, quiz_text, final_output_text, final_output,
                   quiz_str, quiz_table_data, calls, attempts, sent, kind>>

\* what the completion client raises when the service cannot be used
BackendErrors ==
    {Raise("APIConnectionError", "Connection error."),
     Raise("RateLimitError", "Rate limit reached")}

\* the evaluation object of TEMPLATE2 around a quiz
Evaluation(quiz) ==
    JObj(<<Member("complexity_analysis", JStr("Simple")),
           Member("is_appropriate", JLit("true")),
           Member("final_quiz", quiz)>>)

MaxNumber == 3

\* n questions keyed "1".."n"
ShapedQuiz(n) ==
    QuizOf([i \in 1..n |-> IntStr(i)],
           [i \in 1..n |-> Question("Q" \o IntStr(i), Labels, Labels[((i - 1) % 4) + 1])])

\* keys "1" and "3": "2" is missing
GapQuiz == QuizOf(<<"1", "3">>, <<Q0, Q0>>)

\* keys "1" and "x": one key that is no number
ExtraKeyQuiz == QuizOf(<<"1", "x">>, <<Q0, Q0>>)

Reply(k, v, toks) == [kind |-> k, sent |-> v, text |-> toks]

\* a reply that holds the value v, bare or with text around it
RepliesOf(k, v) ==
    {Reply(k, v, JsonDumps(v)),
     Reply(k, v, <<PROSE("Here"), WS>> \o JsonDumps(v) \o <<WS, PROSE("Done")>>)}

ReviewReplies ==
    UNION {RepliesOf("shaped", Evaluation(ShapedQuiz(n))) : n \in 1..MaxNumber}
    \cup RepliesOf("keys_differ", Evaluation(GapQuiz))
    \cup RepliesOf("keys_differ", Evaluation(ExtraKeyQuiz))
    \cup UNION {RepliesOf("off_shape", Evaluation(q)) : q \in OffShapeQuizzes \ {JObj(<<>>)}}
    \cup UNION {RepliesOf("not_mapping", Evaluation(q)) :
                   q \in QuestionNotMapping \cup OptionsNotMapping \cup {JLit("null")}}
    \cup RepliesOf("no_final_quiz", ShapedQuiz(2))
    \cup {Reply("no_json", NULL, toks) :
             toks \in {<<>>, <<PROSE("Sorry")>>, <<LB, STR("final_quiz"), COLON, WS, LB>>,
                       <<RB, PROSE("Sorry"), LB>>}}
    \cup {Reply("bad_json", NULL, toks) :
             toks \in {<<LB, STR("final_quiz"), COLON, RB>>,
                       JsonDumps(Evaluation(ShapedQuiz(1))) \o <<PROSE("or")>>
                           \o JsonDumps(Evaluation(ShapedQuiz(1)))}}

QuizReplies == {JsonDumps(ShapedQuiz(1)), <<PROSE("Sorry")>>}

\* line 159, first half: quiz_chain_text, the quiz generation call
CallQuiz ==
    /\ pc = "quiz"
    /\ attempts' = attempts + 1
    /\ calls' = calls + 1
    /\ \/ \E e \in BackendErrors : Propagate(e) /\ quiz_text' = quiz_text
       \/ \E r \in QuizReplies : quiz_text' = r /\ pc' = "review" /\ result' = result
    /\ UNCHANGED <<shellPc, upload, ui, logged, exc, uncaught, api_key,
                   response_json_file, evaluation_json_file, input_file_path,
                   fs, number, text, final_output_text, final_output,
                   quiz_str, quiz_table_data, sent, kind>>

\* line 159, second half: review_chain_text, the evaluation call
CallReview ==
    /\ pc = "review"
    /\ calls' = calls + 1
    /\ \/ /\ \E e \in BackendErrors : Propagate(e)
          /\ UNCHANGED <<final_output_text, sent, kind>>
       \/ \E r \in ReviewReplies :
             /\ final_output_text' = r.text
             /\ sent' = r.sent
             /\ kind' = r.kind
             /\ pc' = "parse"
             /\ result' = result
    /\ UNCHANGED <<shellPc, upload, ui, logged, exc, uncaught, api_key,
                   response_json_file, evaluation_json_file, input_file_path,
                   fs, number, text, quiz_text, final_output,
                   quiz_str, quiz_table_data, attempts>>

\* line 168 followed by a check of the quiz keys against "1".."number"
ParseOutputChecked ==
    /\ pc = "parse"
    /\ final_output' = ExtractJson(final_output_text)
    /\ IF final_output'.t = "raise"
       THEN Propagate(final_output')
       ELSE LET quiz == DictGet(final_output'.v, "final_quiz", JObj(<<>>))
            IN  IF quiz.t = "obj"
                   /\ {quiz.m[i].k : i \in 1..Len(quiz.m)} = {IntStr(i) : i \in 1..number}
                THEN pc' = "project" /\ result' = result
                ELSE Propagate(Raise("SchemaValidationError", "quiz keys"))
    /\ UNCHANGED <<shellPc, upload, ui, logged, exc, uncaught, api_key,
                   response_json_file, evaluation_json_file, input_file_path,
                   fs, number, text, quiz_text, final_output_text,
                   quiz_str, quiz_table_data, calls, attempts, sent, kind>>

\* line 168
ParseOutput ==
    /\ pc = "parse"
    /\ final_output' = ExtractJson(final_output_text)
    /\ IF final_output'.t = "raise"
       THEN Propagate(final_output')
       ELSE pc' = "project" /\ result' = result
    /\ UNCHANGED <<shellPc, upload, ui, logged, exc, uncaught, api_key,
                   response_json_file, evaluation_json_file, input_file_path,
                   fs, number, text, quiz_text, final_output_text,
                   quiz_str, quiz_table_data, calls, attempts, sent, kind>>

TokenInfo == [t |-> "token_info"]

\* lines 172-174
ProjectAndReturn ==
    /\ pc = "project"
    /\ quiz_str' = JsonDumps(DictGet(final_output.v, "final_quiz", JObj(<<>>)))
    /\ quiz_table_data' = GetTableData(quiz_str').v
    /\ result' = Return([final_output |-> final_output.v,
                         quiz_table_data |-> quiz_table_data',
                         token_info |-> TokenInfo])
    /\ pc' = "done"
    /\ UNCHANGED <<shellPc, upload, ui, logged, exc, uncaught, api_key,
                   response_json_file, evaluation_json_file, input_file_path,
                   fs, number, text, quiz_text, final_output_text, final_output,
                   calls, attempts, sent, kind>>

(***************************************************************************)
(* The submit handler of the Streamlit script (StreamlitAPP.py 22-70)      *)
(***************************************************************************)
\* the names the script binds: its imports (lines 1-10) and its assignments
ShellGlobals ==
    {"json", "tempfile", "Path", "pd", "st", "get_openai_callback",
     "generate_mcqs", "logging",
     "uploaded_file", "number_of_mcqs", "subject", "tone", "submit_button",
     "suffix", "tmp", "tmp_path", "cb", "final_output", "quiz_table_data",
     "token_info", "df", "e"}

NameError(name) == Raise("NameError", "name '" \o name \o "' is not defined")

Show(k, s) == [k |-> k, s |-> s]

\* the name tempfile gives the copy of the upload, before the suffix
TmpName == <<"t", "m", "p">>

\* bool(quiz_table_data), line 57
TableTruthy(data) == data.t = "list" /\ data.rows # <<>>

\* lines 22-37: no upload stops the script; otherwise the upload is copied
\* to a temporary path that keeps its lower-cased suffix and generate_mcqs
\* is called on it
ShellSubmit ==
    /\ shellPc = "submitted"
    /\ IF upload = <<>>
       THEN /\ ui' = Append(ui, Show("error", "Please upload a PDF or TXT file."))
            /\ shellPc' = "stopped"
            /\ UNCHANGED <<pc, input_file_path>>
       ELSE /\ ui' = Append(ui, Show("spinner", "Generating MCQs..."))
            /\ input_file_path' = TmpName \o Lower(PathSuffix(upload))
            /\ pc' = "load_env"
            /\ shellPc' = "generating"
    /\ UNCHANGED <<upload, logged, exc, uncaught, api_key, response_json_file,
                   evaluation_json_file, fs, number, text, quiz_text,
                   final_output_text, final_output, quiz_str, quiz_table_data,
                   result, calls, attempts, sent, kind>>

\* lines 37-66: generate_mcqs has ended; an exception goes to the except
\* clause, a result is logged and rendered
ShellAfterGenerate ==
    /\ shellPc = "generating"
    /\ pc = "done"
    /\ IF result.t = "raise"
       THEN exc' = result /\ shellPc' = "except" /\ UNCHANGED <<ui, logged>>
       ELSE IF "logger" \notin ShellGlobals
       THEN exc' = NameError("logger") /\ shellPc' = "except" /\ UNCHANGED <<ui, logged>>
       ELSE /\ logged' = Append(logged, Show("info", "Tokens"))
            /\ ui' = ui \o <<Show("success", "MCQs generated successfully!"),
                             Show("subheader", "Evaluation"),
                             Show("write", "evaluation"),
                             Show("subheader", "Generated MCQs")>>
                        \o (IF TableTruthy(result.v.quiz_table_data)
                            THEN <<Show("dataframe", "quiz_table_data")>>
                            ELSE <<Show("warning", "No table data produced. Showing raw output:"),
                                   Show("json", "final_output")>>)
                        \o <<Show("subheader", "Token usage"), Show("json", "token_info")>>
            /\ shellPc' = "rendered"
            /\ exc' = exc
    /\ UNCHANGED <<upload, uncaught, pc, api_key, response_json_file,
                   evaluation_json_file, input_file_path, fs, number, text,
                   quiz_text, final_output_text, final_output, quiz_str,
                   quiz_table_data, result, calls, attempts, sent, kind>>

\* lines 68-70: log the exception, show "Error: {e}"
ShellExcept ==
    /\ shellPc = "except"
    /\ IF "logger" \notin ShellGlobals
       THEN /\ uncaught' = NameError("logger")
            /\ shellPc' = "crashed"
            /\ UNCHANGED <<ui, logged>>
       ELSE /\ logged' = Append(logged, Show("exception", "Streamlit app failed"))
            /\ ui' = Append(ui, Show("error", "Error: " \o exc.msg))
            /\ shellPc' = "rendered"
            /\ uncaught' = uncaught
    /\ UNCHANGED <<upload, exc, pc, api_key, response_json_file,
                   evaluation_json_file, input_file_path, fs, number, text,
                   quiz_text, final_output_text, final_output, quiz_str,
                   quiz_table_data, result, calls, attempts, sent, kind>>

(***************************************************************************)
(* One invocation of generate_mcqs, called directly (the CLI runner,       *)
(* MCQGenerator.py 180-187) or from the submit handler.                    *)
(***************************************************************************)
ApiKeys == {NULL, JStr(""), JStr("sk-test")}

SchemaFileStates == {"missing", "invalid", "valid"}

PipelinePaths == {<<"f">> \o suffix : suffix \in Suffixes}

PipelineFiles ==
    {PdfFile(<<Ok("A"), Ok(""), Ok("B")>>), PdfFile(<<Ok("A"), Err("PdfReadError", "bad page")>>),
     TextFile("hello"), MissingFile}

\* names the uploader accepts (type=["pdf", "txt"], line 16)
Uploads == {<<"f">> \o DotPdf, <<"f", ".", "P", "D", "F">>, <<"f">> \o DotTxt}

Init ==
    /\ api_key \in ApiKeys
    /\ response_json_file \in SchemaFileStates
    /\ evaluation_json_file \in SchemaFileStates
    /\ fs \in PipelineFiles
    /\ number \in 1..MaxNumber
    /\ \/ /\ shellPc = "none"
          /\ upload = <<>>
          /\ input_file_path \in PipelinePaths
          /\ pc = "load_env"
       \/ /\ shellPc = "submitted"
          /\ upload \in Uploads \cup {<<>>}
          /\ input_file_path = <<>>
          /\ pc = "idle"
    /\ ui = <<>> /\ logged = <<>> /\ exc = NULL /\ uncaught = NULL
    /\ text = "" /\ quiz_text = <<>> /\ final_output_text = <<>>
    /\ final_output = NULL /\ quiz_str = <<>> /\ quiz_table_data = NULL
    /\ result = NULL /\ calls = 0 /\ attempts = 0 /\ sent = NULL /\ kind = "none"

Next ==
    \/ LoadEnv
    \/ LoadSchemas
    \/ ReadInput
    \/ CallQuiz
    \/ CallReview
    \/ ParseOutput
    \/ ProjectAndReturn
    \/ ShellSubmit
    \/ ShellAfterGenerate
    \/ ShellExcept

Spec == Init /\ [][Next]_vars

(***************************************************************************)
(* Properties of one invocation, under Spec.                               *)
(***************************************************************************)
Configured == api_key # NULL /\ api_key # JStr("")

SchemasLoad == response_json_file = "valid" /\ evaluation_json_file = "valid"

Unsupported(path) == ~IsPdfPath(path) /\ ~IsTxtPath(path)

Invoked == pc \notin {"idle", "call", "returned"}

Ended == pc = "done"

\* C1 as amended: generate_mcqs makes one attempt and never a second: at most
\* 1 attempt and 2 completion calls are made; when the completion client or
\* the parser fails, the invocation ends with that very error (a backend
\* error, the ValueError "No JSON object found" or a JSONDecodeError), never
\* wrapped in a GenerationFailedError; otherwise it returns after 1 attempt.
C1_SingleAttempt ==
    /\ attempts <= 1
    /\ calls <= 2
    /\ (Ended /\ attempts = 1) =>
          IF result.t = "raise"
          THEN /\ result.type # "GenerationFailedError"
               /\ CASE kind = "none" -> result \in BackendErrors
                    [] kind = "no_json" ->
                         result = Raise("ValueError", "No JSON object found in LLM output.")
                    [] kind = "bad_json" -> result.type = "JSONDecodeError"
                    [] OTHER -> FALSE
          ELSE /\ result.t = "return"
               /\ calls = 2
               /\ kind \notin {"none", "no_json", "bad_json"}

\* C1 as stated: a failed first attempt is followed by a second one, so an
\* invocation that ends in an error of the client or the parser has made 2
\* attempts and ends in GenerationFailedError; never more than 2 attempts.
C1_RetryOnce ==
    /\ attempts <= 2
    /\ (Ended /\ attempts >= 1 /\ result.t = "raise") =>
          (attempts = 2 /\ result.type = "GenerationFailedError")

\* the first completion call fails and the invocation ends there
C1_Witness ==
    /\ Ended
    /\ attempts = 1
    /\ calls = 1
    /\ result = Raise("APIConnectionError", "Connection error.")

KeySet(quiz) == {quiz.m[i].k : i \in 1..Len(quiz.m)}

ReturnedQuiz == DictGet(result.v.final_output, "final_quiz", JObj(<<>>))

ParsedKinds == {"shaped", "keys_differ", "off_shape", "not_mapping", "no_final_quiz"}

\* C2 as amended: the pipeline compares no key set with "1".."N": every reply
\* whose span from the first "{" to the last "}" parses is returned as a
\* success with the reply's own value, so the returned quiz has the keys of the
\* reply's final_quiz (keys "1","3" for N = 3 are returned as they are), and
\* no SchemaValidationError is raised.
C2_KeysPassThrough ==
    /\ (Ended /\ kind \in ParsedKinds) =>
          /\ result.t = "return"
          /\ result.v.final_output = sent
          /\ kind \in {"shaped", "keys_differ"} =>
                /\ ReturnedQuiz.t = "obj"
                /\ KeySet(ReturnedQuiz) = KeySet(sent.m[3].v)
    /\ result.t = "raise" => result.type # "SchemaValidationError"

\* C2 as stated: a returned quiz has exactly the keys "1".."N", and a reply
\* with another key set ends in SchemaValidationError
C2_KeysAreOneToN ==
    /\ (Ended /\ result.t = "return") =>
          /\ ReturnedQuiz.t = "obj"
          /\ KeySet(ReturnedQuiz) = {IntStr(i) : i \in 1..number}
    /\ (Ended /\ kind = "keys_differ") =>
          (result.t = "raise" /\ result.type = "SchemaValidationError")

\* N = 3 and the reply's final_quiz has the keys "1" and "3"
C2_Witness ==
    /\ Ended
    /\ number = 3
    /\ result.t = "return"
    /\ ReturnedQuiz.t = "obj"
    /\ KeySet(ReturnedQuiz) = {"1", "3"}
    /\ final_output_text[1].c = "prose"

AllChoices == "a) X.||.b) Y.||.c) Z.||.d) W"

\* the row get_table_data is to give for each question of the off-shape replies
ExpectedRow(q) ==
    CASE q = Q0 -> TableRow(JStr("Q1"), AllChoices, JStr("b"))
      [] q = NoMcq -> TableRow(JStr(""), AllChoices, JStr("b"))
      [] q = NoOptions -> TableRow(JStr("Q1"), "", JStr("b"))
      [] q = NoCorrect -> TableRow(JStr("Q1"), AllChoices, JStr(""))
      [] q = NoLabelD -> TableRow(JStr("Q1"), "a) X.||.b) Y.||.c) Z", JStr("b"))
      [] q = CorrectE -> TableRow(JStr("Q1"), AllChoices, JStr("e"))
      [] q = OddValues ->
           TableRow(JLit("7"), "a) True.||.b) None.||.c) ['Z', 1].||.d) {'k': 'W'}", JStr("a"))
      [] q = JObj(<<>>) -> TableRow(JStr(""), "", JStr(""))

\* C3 as amended: the pipeline validates no question: a reply with a question
\* that misses mcq, options or correct, misses an option label, or has a
\* correct outside a-d is returned as a success and projected to rows, a
\* missing mcq or correct as the empty string, the choices from the labels
\* that are present, correct as it is; when a question or its options is no
\* mapping the reply is returned too, with False as table data.
C3_OffShapeReturned ==
    /\ (Ended /\ kind = "off_shape") =>
          /\ result.t = "return"
          /\ result.v.final_output = sent
          /\ result.v.quiz_table_data =
                 PyList([i \in 1..Len(sent.m[3].v.m) |-> ExpectedRow(sent.m[3].v.m[i].v)])
    /\ (Ended /\ kind = "not_mapping") =>
          /\ result.t = "return"
          /\ result.v.final_output = sent
          /\ result.v.quiz_table_data = PyFalse
    /\ result.t = "raise" => result.type # "SchemaValidationError"

WellFormedQuestion(q) ==
    /\ q.t = "obj"
    /\ DictGet(q, "mcq", NULL) # NULL
    /\ DictGet(q, "options", NULL) # NULL
    /\ DictGet(q, "options", NULL).t = "obj"
    /\ KeySet(DictGet(q, "options", NULL)) = {"a", "b", "c", "d"}
    /\ DictGet(q, "correct", NULL) \in {JStr("a"), JStr("b"), JStr("c"), JStr("d")}

\* C3 as stated: every question of a returned quiz has mcq, the four options
\* a-d and a correct among a-d
C3_QuestionsWellFormed ==
    (Ended /\ result.t = "return") =>
        /\ ReturnedQuiz.t = "obj"
        /\ \A i \in 1..Len(ReturnedQuiz.m) : WellFormedQuestion(ReturnedQuiz.m[i].v)

\* a returned quiz whose second question has no option d
C3_Witness ==
    /\ Ended
    /\ kind = "off_shape"
    /\ result.t = "return"
    /\ Len(ReturnedQuiz.m) = 2
    /\ ReturnedQuiz.m[2].v = NoLabelD
    /\ result.v.quiz_table_data.rows[2] = TableRow(JStr("Q1"), "a) X.||.b) Y.||.c) Z", JStr("b"))

\* C4: with a credential and loadable schema files, an input path whose
\* suffix is neither .pdf nor .txt ends the invocation in read_file's
\* ValueError "Unsupported file format", and no completion call is made.
C4_UnsupportedNoBackendCall ==
    (Invoked /\ Unsupported(input_file_path)) =>
        /\ calls = 0
        /\ attempts = 0
        /\ result.t # "return"
        /\ (Ended /\ Configured /\ SchemasLoad) =>
              result = Raise("ValueError",
                             "Unsupported file format. Please upload a PDF or TXT file.")

\* a .docx path with key and schema files in place
C4_Witness ==
    /\ Ended
    /\ Configured
    /\ SchemasLoad
    /\ PathSuffix(input_file_path) = <<".", "d", "o", "c", "x">>
    /\ result.t = "raise"
    /\ result.type = "ValueError"
    /\ calls = 0

\* C8: without a credential (no OPENAI_API_KEY, or an empty one) the
\* invocation ends in the ValueError "OPENAI_API_KEY not found", makes no
\* completion call and returns no quiz.
C8_NoCredentialNoCall ==
    (Invoked /\ ~Configured) =>
        /\ calls = 0
        /\ result.t # "return"
        /\ Ended =>
              result = Raise("ValueError",
                             "OPENAI_API_KEY not found in environment. Put it in your .env file.")

\* the key is set to the empty string
C8_Witness ==
    /\ Ended
    /\ api_key = JStr("")
    /\ SchemasLoad
    /\ result.t = "raise"
    /\ result.type = "ValueError"
    /\ calls = 0

ShellEnded == shellPc \in {"stopped", "rendered", "crashed"}

Shown(k) == \E i \in 1..Len(ui) : ui[i].k = k

\* C5: when generate_mcqs raises, the script logs the error and shows a
\* message with the error's description; the success message and the table
\* are shown only when generate_mcqs returned.
C5_ShellReportsError ==
    /\ (ShellEnded /\ Ended /\ result.t = "raise") =>
          /\ \E i \in 1..Len(ui) : ui[i] = Show("error", "Error: " \o result.msg)
          /\ logged # <<>>
          /\ uncaught = NULL
    /\ (Shown("success") \/ Shown("dataframe")) => (Ended /\ result.t = "return")

====
